---- MODULE Spec2Model ----
(***************************************************************************)
(* Model of BAR-FEP_NAMD_parser.py: the two-phase scan of ParseFEP and the *)
(* pairing / accumulation of DoBAR as called from main.                    *)
(*                                                                         *)
(* Energies are fixed-point numbers (integers in units of the resolution): *)
(* sums and squares are exact, a square root rounds to the nearest unit,   *)
(* as the np.float64 values of the program round to the nearest double.    *)
(* pymbar's statisticalInefficiency, subsampleCorrelatedData and BAR are   *)
(* library calls: their results are chosen by the environment at the call. *)
(***************************************************************************)
EXTENDS Integers, Sequences, FiniteSets, TLC

VARIABLES
    \* ---- ParseFEP ----
    data,        \* lines of the file scanned so far, each a sequence of tokens
    parsing, i,
    tempDE, tempDG, tempElec, tempVdw,
    dEs_dict, dGs_dict, elecs_dict, vdws_dict, window,
    ppc,         \* "idle" | "scan" | "returned" | "error"
    perr,        \* the exception that ended the scan
    tempSrc, src_dict,  \* history: line numbers of the samples in tempDE / dEs_dict
    \* ---- main / DoBAR ----
    fwds, revs, verbose,
    fwd_ss, rev_ss, corr_time,
    dg_bar, gsd_bar, dgs, gsdlist, bar,
    gsd, net, netsd,
    alls, sds,   \* row 0 of the arrays of main
    printed,     \* the values of the summary line
    pc,          \* "idle" | "main" | "decorrF" | "decorrR" | "bar" | "gsd" | "accum"
                 \* | "report" | "return" | "done" | "error"
    pos,         \* position of the running for loop
    err,         \* the exception that ended the run
    calls,       \* history: the invocations of BAR, in order
    defaulted    \* history: windows for which BAR gave its fallback value

parseVars == <<data, parsing, i, tempDE, tempDG, tempElec, tempVdw,
               dEs_dict, dGs_dict, elecs_dict, vdws_dict, window,
               ppc, perr, tempSrc, src_dict>>

barVars == <<fwds, revs, verbose, fwd_ss, rev_ss, corr_time,
             dg_bar, gsd_bar, dgs, gsdlist, bar, gsd, net, netsd,
             alls, sds, printed, pc, pos, err, calls, defaulted>>

vars == <<parseVars, barVars>>

\* ------------------------------------------------------------------------
\* Bounds
MaxLines == 5

MaxN == 3

MaxSamples == 3

\* ------------------------------------------------------------------------
\* Python dictionaries: functions on the set of keys
EmptyDict == [k \in {} |-> 0]

DictPut(d, k, v) == [x \in (DOMAIN d) \cup {k} |-> IF x = k THEN v ELSE d[x]]

NoError == [type |-> "none", arg |-> <<>>]

\* ------------------------------------------------------------------------
\* Input lines (line.strip().split()), token 0 of Python is element 1 here
LFree     == <<"#Free", "energy", "change", "for", "lambda", "window", "[", "0", "1", "]">>
LFreeNum  == <<"#Free", "100", "1", "3", "2", "5", "4", "0", "0", "7">>
LStart    == <<"#STARTING", "COLLECTION", "OF", "ENSEMBLE", "AVERAGE">>
LStartNum == <<"#STARTING", "100", "1", "3", "2", "5", "4", "0", "0", "7">>
LData1    == <<"FepEnergy:", "100", "1", "3", "2", "5", "4", "0", "0", "7">>
LData2    == <<"FepEnergy:", "200", "3", "1", "5", "2", "-2", "0", "0", "0">>
LBlank    == << >>
LWord     == <<"FepEnergy:", "300", "x", "3", "2", "5", "4", "0", "0", "7">>
LWord78   == <<"FepEnergy:", "100", "1", "3", "2", "5", "4", "x", "x", "7">>

LineSet == {LFree, LFreeNum, LStart, LStartNum, LData1, LData2, LBlank, LWord, LWord78}

\* float(token): the tokens Python converts, and their values
FloatTokens == {"-2", "0", "1", "2", "3", "4", "5", "7", "100", "200", "300"}

IsFloat(t) == t \in FloatTokens

Float(t) ==
    CASE t = "-2"  -> 0 - 2
      [] t = "0"   -> 0
      [] t = "1"   -> 1
      [] t = "2"   -> 2
      [] t = "3"   -> 3
      [] t = "4"   -> 4
      [] t = "5"   -> 5
      [] t = "7"   -> 7
      [] t = "100" -> 100
      [] t = "200" -> 200
      [] t = "300" -> 300

\* '#Free' in l, '#STARTING' in l
HasToken(l, t) == \E n \in 1..Len(l) : l[n] = t

\* l[c] of Python
Col(l, c) == l[c + 1]

\* " ".join(l[6:10]): the slice stops at the end of the list
RECURSIVE JoinFrom(_, _, _)
JoinFrom(l, a, b) ==
    IF a > b \/ a + 1 > Len(l) THEN ""
    ELSE IF a + 1 > b \/ a + 2 > Len(l) THEN Col(l, a)
    ELSE Col(l, a) \o " " \o JoinFrom(l, a + 1, b)

Label(l) == JoinFrom(l, 6, 9)

\* the order in which the four append statements read the columns
ColOrder == <<6, 9, 3, 2, 5, 4>>

ColOK(l, c) == c + 1 <= Len(l) /\ IsFloat(Col(l, c))

\* number of columns converted before the first failure (6: none failed)
ParsePos(l) ==
    IF \A n \in 1..6 : ColOK(l, ColOrder[n]) THEN 6
    ELSE (CHOOSE n \in 1..6 : /\ ~ColOK(l, ColOrder[n])
                              /\ \A m \in 1..(n - 1) : ColOK(l, ColOrder[m])) - 1

\* the exception float(l[c]) raises at the first failing column
ParseError(l) ==
    LET c == ColOrder[ParsePos(l) + 1]
    IN IF c + 1 > Len(l)
       THEN [type |-> "IndexError", arg |-> <<"list index out of range">>]
       ELSE [type |-> "ValueError", arg |-> <<"could not convert string to float", Col(l, c)>>]

\* parsing = False at a summary marker
ParsingAfterSeal_NoReset(free, p) == p

ParsingAfterSeal(free, p) == IF free THEN FALSE ELSE p

\* tempDE = [] ... tempVdw = [] at a summary marker
BufferAfterSeal_NoReset(free, buf) == buf

BufferAfterSeal(free, buf) == IF free THEN << >> ELSE buf

\* dEs_dict[i] = tempDE_arr ... window[i] = label at a summary marker
SealInto(free, d, k, v) == IF free THEN DictPut(d, k, v) ELSE d

\* if '#STARTING' in l: parsing = True
ParsingAfterStart(l, p) == IF HasToken(l, "#STARTING") THEN TRUE ELSE p

\* ------------------------------------------------------------------------
\* ParseFEP
InitParseVars ==
    /\ data = << >>
    /\ parsing = FALSE
    /\ i = 0
    /\ tempDE = << >> /\ tempDG = << >> /\ tempElec = << >> /\ tempVdw = << >>
    /\ dEs_dict = EmptyDict /\ dGs_dict = EmptyDict
    /\ elecs_dict = EmptyDict /\ vdws_dict = EmptyDict /\ window = EmptyDict
    /\ perr = NoError
    /\ tempSrc = << >> /\ src_dict = EmptyDict

\* one pass of the body of "for line in data" on the next line l of the file
ReadLine(l) ==
    /\ ppc = "scan"
    /\ Len(data) < MaxLines
    /\ LET n    == Len(data) + 1
           free == HasToken(l, "#Free")
           p1   == ParsingAfterSeal(free, parsing)
           got  == IF p1 THEN ParsePos(l) ELSE 0
           ok   == ~p1 \/ got = 6
           bDE  == BufferAfterSeal(free, tempDE)
           bDG  == BufferAfterSeal(free, tempDG)
           bEl  == BufferAfterSeal(free, tempElec)
           bVd  == BufferAfterSeal(free, tempVdw)
           bSrc == BufferAfterSeal(free, tempSrc)
       IN /\ data' = Append(data, l)
          /\ dEs_dict'   = SealInto(free, dEs_dict, i, tempDE)
          /\ dGs_dict'   = SealInto(free, dGs_dict, i, tempDG)
          /\ elecs_dict' = SealInto(free, elecs_dict, i, tempElec)
          /\ vdws_dict'  = SealInto(free, vdws_dict, i, tempVdw)
          /\ window'     = SealInto(free, window, i, Label(l))
          /\ src_dict'   = SealInto(free, src_dict, i, tempSrc)
          /\ i' = IF free THEN i + 1 ELSE i
          /\ tempDE'   = IF got >= 1 THEN Append(bDE, Float(Col(l, 6))) ELSE bDE
          /\ tempSrc'  = IF got >= 1 THEN Append(bSrc, n) ELSE bSrc
          /\ tempDG'   = IF got >= 2 THEN Append(bDG, Float(Col(l, 9))) ELSE bDG
          /\ tempElec' = IF got >= 4
                         THEN Append(bEl, Float(Col(l, 3)) - Float(Col(l, 2))) ELSE bEl
          /\ tempVdw'  = IF got >= 6
                         THEN Append(bVd, Float(Col(l, 5)) - Float(Col(l, 4))) ELSE bVd
          /\ parsing' = IF ok THEN ParsingAfterStart(l, p1) ELSE p1
          /\ ppc'  = IF ok THEN "scan" ELSE "error"
          /\ perr' = IF ok THEN perr ELSE ParseError(l)

\* the file has no further line: return the five mappings
ParseReturn ==
    /\ ppc = "scan"
    /\ ppc' = "returned"
    /\ UNCHANGED <<data, parsing, i, tempDE, tempDG, tempElec, tempVdw,
                   dEs_dict, dGs_dict, elecs_dict, vdws_dict, window,
                   perr, tempSrc, src_dict>>

\* ------------------------------------------------------------------------
\* DoBAR: helpers

\* np.zeros([n], np.float64)
Zeros(n) == [k \in 0..(n - 1) |-> 0]

RECURSIVE SortAsc(_)
SortAsc(S) ==
    IF S = {} THEN << >>
    ELSE LET m == CHOOSE x \in S : \A y \in S : x <= y
         IN <<m>> \o SortAsc(S \ {m})

RECURSIVE SortDesc(_)
SortDesc(S) ==
    IF S = {} THEN << >>
    ELSE LET m == CHOOSE x \in S : \A y \in S : x >= y
         IN <<m>> \o SortDesc(S \ {m})

\* d.items(): keys in insertion order; ParseFEP inserts the keys 0, 1, 2, ...
ItemOrder(d) == SortAsc(DOMAIN d)

\* sorted(fwd_ss.keys())
FwdOrder_Descending(S) == SortDesc(S)

FwdOrder(S) == SortAsc(S)

\* sorted(list(rev_ss.keys()), reverse=True)
RevOrder_Ascending(S) == SortAsc(S)

RevOrder(S) == SortDesc(S)

\* zip(a, b): stops at the end of the shorter sequence
Zip(a, b) ==
    [n \in 1..(IF Len(a) <= Len(b) THEN Len(a) ELSE Len(b)) |-> <<a[n], b[n]>>]

\* value[indices] for the indices 0, g, 2g, ... of subsampleCorrelatedData
Subsample(value, g) ==
    [n \in 1..((Len(value) + g - 1) \div g) |-> value[(n - 1) * g + 1]]

\* statistical inefficiencies g the library reports for a correlated series
GVals == {1, 2}

\* results of timeseries.statisticalInefficiency(value): 0 stands for an
\* exception, any other number is g; g exceeds 1 only when the series has a
\* lag to correlate over, that is, at least three samples
StatIneffOutcomes(value) ==
    {0} \cup (IF Len(value) < 3 THEN {1} ELSE GVals)

\* per-window results (dG, standard deviation) of a BAR call that succeeds
EstVals == {[dg |-> 0 - 1, sd |-> 1], [dg |-> 2, sd |-> 2]}

\* results of BAR(f, r): an exception, the fallback (0.0, 0.0) of a failed
\* estimate, or an estimate when both series hold samples
BAROutcomes(f, r) ==
    {[kind |-> "raise", dg |-> 0, sd |-> 0], [kind |-> "default", dg |-> 0, sd |-> 0]}
    \cup (IF Len(f) = 0 \/ Len(r) = 0 THEN {}
          ELSE {[kind |-> "ok", dg |-> e.dg, sd |-> e.sd] : e \in EstVals})

\* x ** 0.5, rounded to the nearest unit
RSqrt(x) == CHOOSE r \in 0..x : (r = 0 \/ r * (r - 1) < x) /\ x <= r * (r + 1)

\* np.sum over the entries 0..n of an array
RECURSIVE SumTo(_, _)
SumTo(a, n) == IF n < 0 THEN 0 ELSE SumTo(a, n - 1) + a[n]

NpSum(a) == SumTo(a, Cardinality(DOMAIN a) - 1)

\* np.power(a, 2)
Squares(a) == [k \in DOMAIN a |-> a[k] * a[k]]

\* gsd = (np.sum(np.power(gsd_bar, 2)))**0.5
NetSD_NoSquare(a) == RSqrt(NpSum(a))

NetSD(a) == RSqrt(NpSum(Squares(a)))

\* dgs[i] = dg_bar[i] + net
CumDG_NoCarry(dg, n) == dg

CumDG(dg, n) == dg + n

\* gsdlist[i] = ((gsd_bar[i])**2. + (netsd)**2.)**0.5
CumSD_NoCarry(sd, n) == RSqrt(sd * sd)

CumSD(sd, n) == RSqrt(sd * sd + n * n)

\* bar[kF] = [np.sum(dg_bar), dg_bar[kF], gsd_bar[kF]]
BarRecord(dg, sd, kF) == <<NpSum(dg), dg[kF], sd[kF]>>

\* a window's series of c samples, each sample tagged with where it comes from
Series(dir, k, c) == [j \in 1..c |-> <<dir, k, j>>]

InitBARVars ==
    /\ fwd_ss = EmptyDict /\ rev_ss = EmptyDict /\ corr_time = EmptyDict
    /\ dg_bar = EmptyDict /\ gsd_bar = EmptyDict
    /\ dgs = EmptyDict /\ gsdlist = EmptyDict /\ bar = EmptyDict
    /\ gsd = 0 /\ net = 0 /\ netsd = 0
    /\ alls = EmptyDict /\ sds = EmptyDict
    /\ printed = [net |-> 0, sd |-> 0]
    /\ pos = 0
    /\ err = NoError
    /\ calls = << >>
    /\ defaulted = {}

InitParse ==
    /\ InitParseVars
    /\ ppc = "scan"
    /\ InitBARVars
    /\ fwds = EmptyDict /\ revs = EmptyDict /\ verbose = FALSE
    /\ pc = "idle"

NextParse ==
    \/ \E l \in LineSet : ReadLine(l) /\ UNCHANGED barVars
    \/ ParseReturn /\ UNCHANGED barVars

SpecParse == InitParse /\ [][NextParse]_vars

\* ------------------------------------------------------------------------
\* main and DoBAR

NumF == Cardinality(DOMAIN fwds)

NumR == Cardinality(DOMAIN revs)

Raise(t, a) ==
    /\ pc' = "error"
    /\ err' = [type |-> t, arg |-> a]

\* main allocates alls and sds and calls DoBAR, which allocates its arrays
DoBAREnter ==
    /\ pc = "main"
    /\ alls' = Zeros(NumF) /\ sds' = Zeros(NumF)
    /\ fwd_ss' = EmptyDict /\ rev_ss' = EmptyDict /\ corr_time' = EmptyDict
    /\ dg_bar' = Zeros(NumF) /\ gsd_bar' = Zeros(NumF)
    /\ dgs' = Zeros(NumF) /\ gsdlist' = Zeros(NumF)
    /\ pc' = "decorrF" /\ pos' = 0
    /\ UNCHANGED <<fwds, revs, verbose, bar, gsd, net, netsd, printed, err,
                   calls, defaulted>>

\* one pass of "for key, value in fwds.items()"
DecorrF(g) ==
    /\ pc = "decorrF"
    /\ pos < NumF
    /\ LET key   == ItemOrder(fwds)[pos + 1]
           value == fwds[key]
       IN /\ g \in StatIneffOutcomes(value)
          /\ IF g = 0
             THEN /\ Raise("ParameterError", <<"statisticalInefficiency">>)
                  /\ UNCHANGED <<corr_time, fwd_ss, pos>>
             ELSE /\ corr_time' = DictPut(corr_time, key, <<g>>)
                  /\ fwd_ss' = DictPut(fwd_ss, key, Subsample(value, g))
                  /\ pos' = pos + 1
                  /\ UNCHANGED <<pc, err>>
    /\ UNCHANGED <<fwds, revs, verbose, rev_ss, dg_bar, gsd_bar, dgs, gsdlist, bar,
                   gsd, net, netsd, alls, sds, printed, calls, defaulted>>

DecorrFDone ==
    /\ pc = "decorrF"
    /\ pos = NumF
    /\ pc' = "decorrR" /\ pos' = 0
    /\ UNCHANGED <<fwds, revs, verbose, fwd_ss, rev_ss, corr_time, dg_bar, gsd_bar,
                   dgs, gsdlist, bar, gsd, net, netsd, alls, sds, printed, err,
                   calls, defaulted>>

\* one pass of "for key, value in revs.items()"
DecorrR(g) ==
    /\ pc = "decorrR"
    /\ pos < NumR
    /\ LET key   == ItemOrder(revs)[pos + 1]
           value == revs[key]
       IN /\ g \in StatIneffOutcomes(value)
          /\ IF g = 0
             THEN /\ Raise("ParameterError", <<"statisticalInefficiency">>)
                  /\ UNCHANGED <<corr_time, rev_ss, pos>>
             ELSE IF key \notin DOMAIN corr_time
             THEN /\ Raise("KeyError", <<"corr_time">>)
                  /\ UNCHANGED <<corr_time, rev_ss, pos>>
             ELSE /\ corr_time' = [corr_time EXCEPT ![key] = Append(@, g)]
                  /\ rev_ss' = DictPut(rev_ss, key, Subsample(value, g))
                  /\ pos' = pos + 1
                  /\ UNCHANGED <<pc, err>>
    /\ UNCHANGED <<fwds, revs, verbose, fwd_ss, dg_bar, gsd_bar, dgs, gsdlist, bar,
                   gsd, net, netsd, alls, sds, printed, calls, defaulted>>

DecorrRDone ==
    /\ pc = "decorrR"
    /\ pos = NumR
    /\ bar' = EmptyDict
    /\ pc' = "bar" /\ pos' = 0
    /\ UNCHANGED <<fwds, revs, verbose, fwd_ss, rev_ss, corr_time, dg_bar, gsd_bar,
                   dgs, gsdlist, gsd, net, netsd, alls, sds, printed, err,
                   calls, defaulted>>

\* the pairs (kF, kR) of the estimation loop
Pairs == Zip(FwdOrder(DOMAIN fwd_ss), RevOrder(DOMAIN rev_ss))

\* one pass of "for kF, kR in zip(...)": BAR answers o
Estimate(o) ==
    /\ pc = "bar"
    /\ pos < Len(Pairs)
    /\ LET kF == Pairs[pos + 1][1]
           kR == Pairs[pos + 1][2]
           dg == [dg_bar EXCEPT ![kF] = o.dg]
           sd == [gsd_bar EXCEPT ![kF] = o.sd]
       IN /\ o \in BAROutcomes(fwd_ss[kF], rev_ss[kR])
          /\ calls' = Append(calls, [kF |-> kF, kR |-> kR,
                                     f |-> fwd_ss[kF], r |-> rev_ss[kR]])
          /\ IF o.kind = "raise"
             THEN /\ Raise("EstimatorError", <<"BAR">>)
                  /\ UNCHANGED <<dg_bar, gsd_bar, bar, defaulted, pos>>
             ELSE /\ dg_bar' = dg
                  /\ gsd_bar' = sd
                  /\ bar' = DictPut(bar, kF, BarRecord(dg, sd, kF))
                  /\ defaulted' = IF o.kind = "default" THEN defaulted \cup {kF}
                                  ELSE defaulted
                  /\ pos' = pos + 1
                  /\ UNCHANGED <<pc, err>>
    /\ UNCHANGED <<fwds, revs, verbose, fwd_ss, rev_ss, corr_time, dgs, gsdlist,
                   gsd, net, netsd, alls, sds, printed>>

\* after the estimation loop: the net standard deviation, net = 0., netsd = 0.
NetSigma ==
    /\ pc = "bar"
    /\ pos = Len(Pairs)
    /\ gsd' = NetSD(gsd_bar)
    /\ net' = 0 /\ netsd' = 0
    /\ pc' = "accum" /\ pos' = 0
    /\ UNCHANGED <<fwds, revs, verbose, fwd_ss, rev_ss, corr_time, dg_bar, gsd_bar,
                   dgs, gsdlist, bar, alls, sds, printed, err, calls, defaulted>>

\* one pass of "for i, g in enumerate(dg_bar)"
Accumulate ==
    /\ pc = "accum"
    /\ pos < Cardinality(DOMAIN dg_bar)
    /\ dgs' = [dgs EXCEPT ![pos] = CumDG(dg_bar[pos], net)]
    /\ net' = dgs'[pos]
    /\ gsdlist' = [gsdlist EXCEPT ![pos] = CumSD(gsd_bar[pos], netsd)]
    /\ netsd' = gsdlist'[pos]
    /\ pos' = pos + 1
    /\ UNCHANGED <<fwds, revs, verbose, fwd_ss, rev_ss, corr_time, dg_bar, gsd_bar,
                   bar, gsd, alls, sds, printed, pc, err, calls, defaulted>>

\* the tables printed when verbose, then the summary line; the argument
\* verbose of the call is read here and nowhere else
Report(v) ==
    /\ pc = "accum"
    /\ pos = Cardinality(DOMAIN dg_bar)
    /\ verbose' = v
    /\ IF v /\ \E k \in DOMAIN corr_time : Len(corr_time[k]) < 2
       THEN /\ Raise("IndexError", <<"list index out of range">>)
            /\ UNCHANGED printed
       ELSE /\ printed' = [net |-> NpSum(dg_bar), sd |-> gsd]
            /\ pc' = "return"
            /\ UNCHANGED err
    /\ UNCHANGED <<fwds, revs, fwd_ss, rev_ss, corr_time, dg_bar, gsd_bar,
                   dgs, gsdlist, bar, gsd, net, netsd, alls, sds, pos, calls,
                   defaulted>>

\* return dgs, gsdlist; main stores them in alls[0], sds[0]
DoBARReturn ==
    /\ pc = "return"
    /\ alls' = dgs /\ sds' = gsdlist
    /\ pc' = "done"
    /\ UNCHANGED <<fwds, revs, verbose, fwd_ss, rev_ss, corr_time, dg_bar, gsd_bar,
                   dgs, gsdlist, bar, gsd, net, netsd, printed, pos, err, calls,
                   defaulted>>

\* the mappings main hands to DoBAR: ParseFEP keys them 0..N-1
InitBAR ==
    /\ InitParseVars
    /\ ppc = "idle"
    /\ InitBARVars
    /\ \E n \in 0..MaxN, c \in 0..MaxSamples :
          fwds = [k \in 0..(n - 1) |-> Series("F", k, c)]
    /\ \E m \in 0..MaxN, c \in 0..MaxSamples :
          revs = [k \in 0..(m - 1) |-> Series("R", k, c)]
    /\ verbose = FALSE
    /\ pc = "main"

NextBAR ==
    \/ DoBAREnter /\ UNCHANGED parseVars
    \/ \E g \in {0} \cup GVals : DecorrF(g) /\ UNCHANGED parseVars
    \/ DecorrFDone /\ UNCHANGED parseVars
    \/ \E g \in {0} \cup GVals : DecorrR(g) /\ UNCHANGED parseVars
    \/ DecorrRDone /\ UNCHANGED parseVars
    \/ \E o \in BAROutcomes(<<0>>, <<0>>) : Estimate(o) /\ UNCHANGED parseVars
    \/ NetSigma /\ UNCHANGED parseVars
    \/ Accumulate /\ UNCHANGED parseVars
    \/ \E v \in BOOLEAN : Report(v) /\ UNCHANGED parseVars
    \/ DoBARReturn /\ UNCHANGED parseVars

SpecBAR == InitBAR /\ [][NextBAR]_vars

\* ------------------------------------------------------------------------
\* The stream read so far, by position

IsFree(l)  == HasToken(l, "#Free")

IsBegin(l) == HasToken(l, "#STARTING")

FreeLines == {p \in 1..Len(data) : IsFree(data[p])}

\* position of the k-th summary marker, k = 1, 2, ...
NthFree(k) == CHOOSE p \in FreeLines : Cardinality({q \in FreeLines : q <= p}) = k

\* segment k (window index k, from 0) lies strictly between SegStart(k) and SegEnd(k)
SegStart(k) == IF k = 0 THEN 0 ELSE NthFree(k)

SegEnd(k) == IF k < Cardinality(FreeLines) THEN NthFree(k + 1) ELSE Len(data) + 1

\* line j lies in segment k, after a begin marker of that segment
InCollection(j, k) ==
    /\ SegStart(k) < j
    /\ j < SegEnd(k)
    /\ \E s \in 1..(j - 1) : s >= SegStart(k) /\ IsBegin(data[s])

\* the collected lines of segment k in order of appearance
Collected(k) ==
    SelectSeq([j \in 1..Len(data) |-> j], LAMBDA j : InCollection(j, k))

SeqRange(q) == {q[n] : n \in 1..Len(q)}

\* C2 (as stated): a line contributes a sample to a window only if it lies
\* strictly after a begin marker and strictly before the next summary marker
\* of the same segment, and neither kind of marker line is ever collected.
C2_MarkersNeverCollected ==
    \A k \in DOMAIN src_dict : \A n \in 1..Len(src_dict[k]) :
        LET j == src_dict[k][n]
        IN /\ InCollection(j, k)
           /\ ~IsFree(data[j])
           /\ ~IsBegin(data[j])

\* C2 (amended): a line contributes a sample to a window only if it lies
\* strictly after a begin marker and strictly before the next summary marker
\* of the same segment; summary markers are never collected, and a begin
\* marker is collected only when an earlier begin marker of the same segment
\* has already switched collection on.
C2_CollectedOnlyInsideCollection ==
    \A k \in DOMAIN src_dict : \A n \in 1..Len(src_dict[k]) :
        LET j == src_dict[k][n]
        IN /\ InCollection(j, k)
           /\ ~IsFree(data[j])
           /\ IsBegin(data[j]) =>
                 \E s \in 1..(j - 1) : SegStart(k) < s /\ IsBegin(data[s])

\* a sealed window with a sample, an equilibration line before the begin
\* marker and a sample-shaped line after the summary marker, both left out
C2_Witness ==
    /\ ppc = "returned"
    /\ Len(data) = 5
    /\ data[1] = LData1 /\ data[2] = LStart /\ data[3] = LData2
    /\ data[4] = LFree /\ data[5] = LData1
    /\ src_dict[0] = <<3>>

\* C3: after the scan of a stream with N summary markers each of the five
\* mappings has the keys 0..N-1, key k holds the samples of the k-th segment
\* in order of appearance, the four series of a window have one length, no
\* sample is stored under two windows, and a segment without sample lines is
\* sealed as an empty series.
C3_SealedWindows ==
    ppc = "returned" =>
        LET N == Cardinality(FreeLines)
        IN /\ DOMAIN dEs_dict = 0..(N - 1)
           /\ DOMAIN dGs_dict = 0..(N - 1)
           /\ DOMAIN elecs_dict = 0..(N - 1)
           /\ DOMAIN vdws_dict = 0..(N - 1)
           /\ DOMAIN window = 0..(N - 1)
           /\ \A k \in 0..(N - 1) :
                LET c == Collected(k)
                IN /\ src_dict[k] = c
                   /\ dEs_dict[k] = [n \in 1..Len(c) |-> Float(Col(data[c[n]], 6))]
                   /\ dGs_dict[k] = [n \in 1..Len(c) |-> Float(Col(data[c[n]], 9))]
                   /\ elecs_dict[k] = [n \in 1..Len(c) |->
                          Float(Col(data[c[n]], 3)) - Float(Col(data[c[n]], 2))]
                   /\ vdws_dict[k] = [n \in 1..Len(c) |->
                          Float(Col(data[c[n]], 5)) - Float(Col(data[c[n]], 4))]
                   /\ Len(dGs_dict[k]) = Len(dEs_dict[k])
                   /\ Len(elecs_dict[k]) = Len(dEs_dict[k])
                   /\ Len(vdws_dict[k]) = Len(dEs_dict[k])
                   /\ window[k] = Label(data[NthFree(k + 1)])
           /\ \A k1, k2 \in 0..(N - 1) :
                k1 # k2 => SeqRange(src_dict[k1]) \cap SeqRange(src_dict[k2]) = {}

\* two sealed windows: the first with two different samples in order, the
\* second without any sample line
C3_Witness ==
    /\ ppc = "returned"
    /\ i = 2
    /\ dEs_dict[0] = <<4, 0 - 2>>
    /\ elecs_dict[0] = <<2, 0 - 2>>
    /\ dEs_dict[1] = << >>
    /\ window[1] = "[ 0 1 ]"

\* columns 2-9 of a line: some column missing or not numeric
BadColumns(l) == \E c \in 2..9 : ~ColOK(l, c)

\* the text of a line, tokens separated by one blank
LineText(l) == JoinFrom(l, 0, Len(l) - 1)

\* the exception's message quotes the line it was raised for
ErrorNamesLine(e, l) ==
    e.type # "none" /\ \E n \in 1..Len(e.arg) : e.arg[n] = LineText(l)

\* C9: while collection is on, a line whose columns 2-9 are missing or not
\* numeric ends the parse in an error that names the offending line.
C9_BadLineIsNamedError ==
    [][(/\ ppc = "scan"
        /\ Len(data') = Len(data) + 1
        /\ parsing
        /\ ~IsFree(data'[Len(data')])
        /\ BadColumns(data'[Len(data')]))
       => (ppc' = "error" /\ ErrorNamesLine(perr', data'[Len(data')]))]_vars

\* ------------------------------------------------------------------------
\* Claims about DoBAR

\* the estimation loop is over
AfterEstimation == pc \in {"accum", "return", "done"}

\* C1: for forward and reverse mappings of N windows each, keyed 0..N-1, the
\* i-th invocation of BAR (i = 0..N-1) receives the decorrelated forward
\* series of window i and the decorrelated reverse series of window N-1-i,
\* and a run that gets through the estimation loop has invoked BAR exactly N
\* times.
C1_ReversedPairing ==
    NumF = NumR =>
        /\ \A n \in 1..Len(calls) :
              /\ calls[n].kF = n - 1
              /\ calls[n].kR = NumF - n
              /\ calls[n].f = Subsample(fwds[n - 1], corr_time[n - 1][1])
              /\ calls[n].r = Subsample(revs[NumF - n], corr_time[NumF - n][2])
              /\ (calls[n].kF = calls[n].kR => 2 * (n - 1) = NumF - 1)
        /\ AfterEstimation => Len(calls) = NumF

\* three windows a side, all three pairs estimated, forward 0 with reverse 2
\* and forward 2 with reverse 0, on series that decorrelation has thinned
C1_Witness ==
    /\ pc = "done"
    /\ NumF = 3 /\ NumR = 3
    /\ Len(calls) = 3
    /\ calls[1].kF = 0 /\ calls[1].kR = 2
    /\ calls[3].kF = 2 /\ calls[3].kR = 0
    /\ calls[1].f = <<<<"F", 0, 1>>, <<"F", 0, 3>>>>
    /\ calls[1].r = <<<<"R", 2, 1>>, <<"R", 2, 2>>, <<"R", 2, 3>>>>

\* C4: with different numbers of forward and reverse windows the run ends in
\* an error before BAR is invoked for any pair, and no profile is returned.
C4_CountMismatchIsFatal ==
    NumF # NumR => (calls = << >> /\ pc \notin {"return", "done"})

\* C5: a pair with an empty decorrelated series, with fewer than 2 samples
\* before decorrelation, or with a failed estimate never ends up in a
\* returned profile.
C5_NoProfileFromDegeneratePair ==
    pc = "done" =>
        \A n \in 1..Len(calls) :
            /\ Len(calls[n].f) > 0 /\ Len(calls[n].r) > 0
            /\ Len(fwds[calls[n].kF]) >= 2 /\ Len(revs[calls[n].kR]) >= 2
            /\ calls[n].kF \notin defaulted

C7_SigmaNonDecreasing ==
    pc = "done" =>
        /\ NumF >= 1 => sds[0] >= 0
        /\ \A k \in 1..(NumF - 1) : sds[k] >= sds[k - 1]

\* three windows with standard deviations 2, 1, 2
C7_Witness ==
    /\ pc = "done"
    /\ NumF = 3
    /\ gsd_bar[0] = 2 /\ gsd_bar[1] = 1 /\ gsd_bar[2] = 2
    /\ sds[0] = 2 /\ sds[1] = 2 /\ sds[2] = 3

Abs(x) == IF x < 0 THEN 0 - x ELSE x

====
